---- MODULE Spec2Model ----
(***************************************************************************)
(* A model of the PDF table extraction pipeline of the partner-shop site   *)
(* (scripts/extract_shops.py, scripts/generate_site.py,                    *)
(* scripts/build_site.py).                                                 *)
(*                                                                         *)
(* Text is modelled as a sequence of Unicode code points and a byte string *)
(* as a sequence of numbers 0..255, so that substring search, regular      *)
(* expressions and decoding are computed as the code computes them.        *)
(* Python indices are kept 0-based; element i of a Python list s is        *)
(* s[i + 1] here.                                                          *)
(***************************************************************************)
EXTENDS Integers, Sequences, FiniteSets, TLC

VARIABLES
    pc,                \* the stage of the run that comes next, or that was run
    \* extract_raw_tokens
    streams,           \* the payloads between stream and endstream, decompressed
    cmap,              \* the ToUnicode map of the document
    raised,            \* an exception left the function
    origins,           \* for each token, the stream and place of its operand
    \* decode_bytes on one hex operand
    hex_digits,        \* the digits between < and >
    data,              \* bytes.fromhex of them
    chars,             \* the chars list of decode_bytes
    decoded,           \* the returned text
    \* main
    raw_tokens,        \* extract_raw_tokens(pdf_bytes, cmap)
    cleaned_tokens,    \* after the skip_tokens filter
    normalized_tokens, \* after the header-stripping loop
    \* slice_entries
    tokens,            \* the token list handed to it
    fragOrder,         \* the iteration order of HEADER_FRAGMENT in this process
    starts,            \* locate_entries(tokens)
    shops,             \* the returned list of Shop records
    splits,            \* the locals of each span that yielded a record
    \* cleanup_text, in two processes one after the other
    text,              \* the argument
    value,             \* the local of the same name
    unvisited,         \* the fragments the for loop has not visited yet
    results,           \* the value returned in each finished process
    \* generate_site.extract_records
    rows,              \* the argument
    records,           \* the returned list
    \* parse_to_unicode
    map_data,          \* the argument, the text of a ToUnicode CMap stream
    mapping,           \* the returned table
    ranges             \* for each bfrange line with an array, what it did

extractVars == <<streams, cmap, raised, origins>>
decodeVars  == <<hex_digits, data, chars, decoded>>
mainVars    == <<raw_tokens, cleaned_tokens, normalized_tokens>>
sliceVars   == <<tokens, fragOrder, starts, shops, splits>>
cleanVars   == <<text, value, unvisited, results>>
recordVars  == <<rows, records>>
parseVars   == <<map_data, mapping, ranges>>

vars ==
    <<pc, streams, cmap, raised, origins, hex_digits, data, chars, decoded,
      raw_tokens, cleaned_tokens, normalized_tokens, tokens, fragOrder, starts,
      shops, splits, text, value, unvisited, results, rows, records, map_data,
      mapping, ranges>>

\* The variables of a stage that a specification does not run
IdleExtract == streams = <<>> /\ cmap = <<>> /\ raised = FALSE /\ origins = <<>>
IdleDecode  == hex_digits = <<>> /\ data = <<>> /\ chars = <<>> /\ decoded = <<>>
IdleMain    == raw_tokens = <<>> /\ cleaned_tokens = <<>> /\ normalized_tokens = <<>>
IdleSlice   ==
    tokens = <<>> /\ fragOrder = <<>> /\ starts = <<>> /\ shops = <<>> /\ splits = <<>>
IdleClean   == text = <<>> /\ value = <<>> /\ unvisited = {} /\ results = <<>>
IdleRecords == rows = <<>> /\ records = <<>>
IdleParse   == map_data = <<>> /\ mapping = <<>> /\ ranges = <<>>

(***************************************************************************)
(* Sequence and string helpers (Python str / list operations).             *)
(***************************************************************************)
Min(S) == CHOOSE x \in S : \A y \in S : x <= y

Range(s) == {s[i] : i \in DOMAIN s}

\* "".join(parts)
RECURSIVE Join(_)
Join(parts) == IF parts = <<>> THEN <<>> ELSE Head(parts) \o Join(Tail(parts))

\* " ".join(parts)
RECURSIVE JoinSpace(_)
JoinSpace(parts) ==
    IF parts = <<>> THEN <<>>
    ELSE IF Len(parts) = 1 THEN Head(parts)
    ELSE Head(parts) \o <<32>> \o JoinSpace(Tail(parts))

\* s[i:] for a 0-based i
From(s, i) == SubSeq(s, i + 1, Len(s))

\* s[i : i + len(f)] == f, for a 0-based i
MatchAt(s, f, i) == i + Len(f) <= Len(s) /\ SubSeq(s, i + 1, i + Len(f)) = f

\* f in s
Contains(s, f) == \E i \in 0..(Len(s) - Len(f)) : MatchAt(s, f, i)

\* s.find(f), -1 when absent
Find(s, f) ==
    LET hits == {i \in 0..(Len(s) - Len(f)) : MatchAt(s, f, i)}
    IN  IF hits = {} THEN -1 ELSE Min(hits)

\* s.replace(f, "") for a non-empty f: leftmost non-overlapping occurrences
RECURSIVE ReplaceFrom(_, _, _)
ReplaceFrom(s, f, i) ==
    IF i >= Len(s) THEN <<>>
    ELSE IF MatchAt(s, f, i) THEN ReplaceFrom(s, f, i + Len(f))
    ELSE <<s[i + 1]>> \o ReplaceFrom(s, f, i + 1)

Replace(s, f) == ReplaceFrom(s, f, 0)

\* s.replace(f, "", 1)
ReplaceOnce(s, f) ==
    LET at == Find(s, f)
    IN  IF at = -1 THEN s ELSE SubSeq(s, 1, at) \o From(s, at + Len(f))

\* str.isspace() of one character
IsSpace(c) ==
    c \in ({9, 10, 11, 12, 13, 28, 29, 30, 31, 32, 133, 160, 5760, 8232, 8233,
            8239, 8287, 12288} \cup (8192..8202))

\* str.strip()
RECURSIVE LStrip(_)
LStrip(s) == IF s # <<>> /\ IsSpace(Head(s)) THEN LStrip(Tail(s)) ELSE s

RECURSIVE RStrip(_)
RStrip(s) ==
    IF s # <<>> /\ IsSpace(s[Len(s)]) THEN RStrip(SubSeq(s, 1, Len(s) - 1)) ELSE s

Strip(s) == RStrip(LStrip(s))

\* \d of the re module, on the ASCII digits (the model's texts hold no other
\* decimal digit)
IsDigit(c) == c \in 48..57

\* s[p : p + k] is k digits
DigitsAt(s, p, k) == p + k <= Len(s) /\ \A j \in 1..k : IsDigit(s[p + j])

\* s[p] == c
CharAt(s, p, c) == p < Len(s) /\ s[p + 1] = c

\* str(n) for n >= 0
RECURSIVE Str(_)
Str(n) == IF n < 10 THEN <<48 + n>> ELSE Str(n \div 10) \o <<48 + (n % 10)>>

\* int(t) for a token of ASCII digits
RECURSIVE ToInt(_)
ToInt(t) ==
    IF t = <<>> THEN 0 ELSE 10 * ToInt(SubSeq(t, 1, Len(t) - 1)) + (t[Len(t)] - 48)

(***************************************************************************)
(* extract_shops.py, post-processing tables.                               *)
(***************************************************************************)
CATEGORIES ==
    { <<29983, 27963>>, <<20241, 38290>>, <<34269, 25991>>, <<25945, 32946>>,
      <<37291, 30274>>, <<20132, 36890>>, <<26053, 23487>>, <<36092, 29289>>,
      <<32654, 23481>>, <<26381, 21209>>, <<20445, 20581>>, <<20854, 20182>> }

ADDRESS_BREAK ==
    << <<20778, 24800>>, <<25240>>, <<20139>>, <<24977>>, <<36865>>, <<36104>>,
       <<28040, 36027>>, <<21363, 21487>>, <<25345>>, <<20986, 31034>>,
       <<25240, 25187>>, <<25240, 25269>>, <<20351, 29992>>, <<38656>>,
       <<26412, 20778, 24800>>, <<25240, 20729>>, <<20219, 36984>>, <<33267>>,
       <<26044>>, <<20839, 21547>> >>

\* The members of the set, numbered in the order the source lists them.
HEADER_FRAGMENT ==
    << <<26691, 22290, 24066, 25919, 24220, 21729, 24037, 21345, 29305>>,
       <<32004, 21830, 24215, 21517, 21934, 21450>>,
       <<20778, 24800, 25514, 26045, 19968, 35261>>,
       <<34920>>,
       <<20633, 35387, 65306, 35443>>,
       <<32048, 20778, 24800, 20839, 23481, 35531>>,
       <<27965, 21508, 29305, 32004, 21830, 24215>>,
       <<38913, 65292, 20849>>,
       <<38913>> >>

\* A slip: re.search(r"[\u5e02\u7e23]", token), the character anywhere in the token
is_city_search(token) == \E i \in 1..Len(token) : token[i] \in {24066, 32291}

\* re.match(r".*[\u5e02\u7e23]$", token): "." stops at a line feed, "$" also matches
\* before one final line feed
is_city(token) ==
    LET n == Len(token)
    IN  \/ /\ n >= 1
           /\ token[n] \in {24066, 32291}
           /\ \A i \in 1..(n - 1) : token[i] # 10
        \/ /\ n >= 2
           /\ token[n] = 10
           /\ token[n - 1] \in {24066, 32291}
           /\ \A i \in 1..(n - 2) : token[i] # 10

(***************************************************************************)
(* cleanup_text.  The for loop visits the members of a set, an order the   *)
(* language leaves to the hash seed of the process: order is a sequence of *)
(* indices into HEADER_FRAGMENT, the order of one process.                 *)
(***************************************************************************)
\* the end of the \d+ run that starts at p (p itself when there is no digit)
RECURSIVE DigitsEnd(_, _)
DigitsEnd(s, p) == IF p < Len(s) /\ IsDigit(s[p + 1]) THEN DigitsEnd(s, p + 1) ELSE p

\* the end of a match of \u7b2c\d+\u9801\uff0c\u5171\d+\u9801 at p, or -1
PageFooterEnd(s, p) ==
    LET d1 == DigitsEnd(s, p + 1)
        d2 == DigitsEnd(s, d1 + 3)
    IN  IF /\ CharAt(s, p, 31532)
           /\ d1 > p + 1
           /\ CharAt(s, d1, 38913)
           /\ CharAt(s, d1 + 1, 65292)
           /\ CharAt(s, d1 + 2, 20849)
           /\ d2 > d1 + 3
           /\ CharAt(s, d2, 38913)
        THEN d2 + 1
        ELSE -1

\* re.sub(r"\u7b2c\d+\u9801\uff0c\u5171\d+\u9801", "", v)
RECURSIVE PageFooterSub(_, _)
PageFooterSub(s, p) ==
    IF p >= Len(s) THEN <<>>
    ELSE IF PageFooterEnd(s, p) # -1 THEN PageFooterSub(s, PageFooterEnd(s, p))
    ELSE <<s[p + 1]>> \o PageFooterSub(s, p + 1)

\* the for loop of cleanup_text over the fragments order[k..]
RECURSIVE RemoveFragments(_, _, _)
RemoveFragments(v, order, k) ==
    IF k > Len(order) THEN v
    ELSE RemoveFragments(Replace(v, HEADER_FRAGMENT[order[k]]), order, k + 1)

cleanup_text(v, order) ==
    Strip(PageFooterSub(RemoveFragments(v, order, 1), 0))

(***************************************************************************)
(* extract_shops.py, PDF text utilities: decode_bytes.                     *)
(* A CMap is a function from codes to texts; cmap.get(code) of a missing   *)
(* code and an empty text are both false in "if mapped".                   *)
(***************************************************************************)
CMapGet(cm, code) == IF code \in DOMAIN cm THEN cm[code] ELSE <<>>

IsCont(b) == b \in 128..191

\* The length of the UTF-8 sequence that starts d (strict: no overlong form, no
\* surrogate, nothing above U+10FFFF), or 0 when d starts with no valid one
Utf8Len(d) ==
    LET n  == Len(d)
        b0 == d[1]
    IN  IF b0 < 128 THEN 1
        ELSE IF b0 \in 194..223 /\ n >= 2 /\ IsCont(d[2]) THEN 2
        ELSE IF /\ b0 \in 224..239 /\ n >= 3 /\ IsCont(d[2]) /\ IsCont(d[3])
                /\ (b0 = 224 => d[2] >= 160)
                /\ (b0 = 237 => d[2] <= 159)
             THEN 3
        ELSE IF /\ b0 \in 240..244 /\ n >= 4
                /\ IsCont(d[2]) /\ IsCont(d[3]) /\ IsCont(d[4])
                /\ (b0 = 240 => d[2] >= 144)
                /\ (b0 = 244 => d[2] <= 143)
             THEN 4
        ELSE 0

\* the code point of the UTF-8 sequence of length k that starts d
Utf8Char(d, k) ==
    CASE k = 1 -> d[1]
      [] k = 2 -> (d[1] - 192) * 64 + (d[2] - 128)
      [] k = 3 -> (d[1] - 224) * 4096 + (d[2] - 128) * 64 + (d[3] - 128)
      [] OTHER -> (d[1] - 240) * 262144 + (d[2] - 128) * 4096
                      + (d[3] - 128) * 64 + (d[4] - 128)

\* d.decode("utf-8") does not raise
RECURSIVE Utf8Valid(_)
Utf8Valid(d) ==
    IF d = <<>> THEN TRUE
    ELSE Utf8Len(d) # 0 /\ Utf8Valid(SubSeq(d, Utf8Len(d) + 1, Len(d)))

\* d.decode("utf-8"), for a valid d
RECURSIVE Utf8Text(_)
Utf8Text(d) ==
    IF d = <<>> THEN <<>>
    ELSE <<Utf8Char(d, Utf8Len(d))>> \o Utf8Text(SubSeq(d, Utf8Len(d) + 1, Len(d)))

\* The Big5 table, as far as the byte strings of this model reach: no byte
\* outside 0xA1..0xF9 is a lead byte, and the one pair kept here is A4 40 (U+4E00).
Big5Char(lead, trail) == IF lead = 164 /\ trail = 64 THEN 19968 ELSE -1

\* d.decode("big5", errors="ignore"): an ASCII byte is a character, a mapped
\* pair is a character, anything else is skipped one byte at a time
RECURSIVE Big5Ignore(_)
Big5Ignore(d) ==
    IF d = <<>> THEN <<>>
    ELSE IF d[1] < 128 THEN <<d[1]>> \o Big5Ignore(Tail(d))
    ELSE IF Len(d) >= 2 /\ Big5Char(d[1], d[2]) # -1
         THEN <<Big5Char(d[1], d[2])>> \o Big5Ignore(SubSeq(d, 3, Len(d)))
    ELSE Big5Ignore(Tail(d))

\* the chars list after the for loop over range(i, len(data), 2), for a data of
\* even length
RECURSIVE decode_chars(_, _, _)
decode_chars(d, cm, i) ==
    LET code == d[i + 1] * 256 + d[i + 2]
        two  == SubSeq(d, i + 1, i + 2)
    IN  IF i >= Len(d) THEN <<>>
        ELSE (IF CMapGet(cm, code) # <<>> THEN <<CMapGet(cm, code)>>
              ELSE IF Utf8Valid(two) THEN <<Utf8Text(two)>>
              ELSE <<>>) \o decode_chars(d, cm, i + 2)

\* the chars list when decode_bytes returns (empty when the loop is not run)
CharsOf(d, cm) == IF Len(d) % 2 = 0 THEN decode_chars(d, cm, 0) ELSE <<>>

decode_bytes(d, cm) ==
    IF CharsOf(d, cm) # <<>> THEN Join(CharsOf(d, cm))
    ELSE IF Utf8Valid(d) THEN Utf8Text(d)
    ELSE Big5Ignore(d)

(***************************************************************************)
(* bytes.fromhex and parse_literal.  An operator that can raise returns a  *)
(* record: raised, and the bytes when it did not raise.                    *)
(***************************************************************************)
\* the value of one hex digit (0-9, A-F, a-f)
HexValue(c) ==
    IF c \in 48..57 THEN c - 48 ELSE IF c \in 65..70 THEN c - 55 ELSE c - 87

IsHexDigit(c) == c \in (48..57) \cup (65..70) \cup (97..102)

RECURSIVE HexPairs(_)
HexPairs(h) ==
    IF Len(h) < 2 THEN <<>>
    ELSE <<HexValue(h[1]) * 16 + HexValue(h[2])>> \o HexPairs(SubSeq(h, 3, Len(h)))

\* bytes.fromhex(h) for a run of hex digits: ValueError when their number is odd
FromHex(h) ==
    IF Len(h) % 2 = 1 THEN [raised |-> TRUE, bytes |-> <<>>]
    ELSE [raised |-> FALSE, bytes |-> HexPairs(h)]

\* the escapes table of parse_literal: n r t b f ( ) \
EscapeOf(c) ==
    CASE c = 110 -> 10
      [] c = 114 -> 13
      [] c = 116 -> 9
      [] c = 98 -> 8
      [] c = 102 -> 12
      [] c = 40 -> 40
      [] c = 41 -> 41
      [] c = 92 -> 92
      [] OTHER -> -1

IsOctal(c) == c \in 48..55

\* where the run of octal digits that starts at i + 1 ends: at most three digits
OctalEnd(d, i) ==
    LET j2 == i + 2
        j3 == IF j2 < Len(d) /\ IsOctal(d[j2 + 1]) THEN j2 + 1 ELSE j2
        j4 == IF j3 = j2 + 1 /\ j3 < Len(d) /\ IsOctal(d[j3 + 1]) THEN j3 + 1 ELSE j3
    IN  j4

\* int(bytes(oct_digits), 8) for the digits d[i + 1 : j]
RECURSIVE OctalValue(_, _, _)
OctalValue(d, i, j) ==
    IF j <= i + 1 THEN 0 ELSE 8 * OctalValue(d, i, j - 1) + (d[j] - 48)

\* the while loop of parse_literal from index i: out.append of a value above 255
\* raises ValueError
RECURSIVE parse_literal(_, _)
parse_literal(d, i) ==
    IF i >= Len(d) THEN [raised |-> FALSE, bytes |-> <<>>]
    ELSE
        LET current == d[i + 1]
            esc     == current = 92 /\ i + 1 < Len(d)
            nxt     == IF esc THEN d[i + 2] ELSE -1
            step    == IF esc /\ EscapeOf(nxt) # -1 THEN [b |-> EscapeOf(nxt), to |-> i + 2]
                       ELSE IF esc /\ IsOctal(nxt)
                            THEN [b |-> OctalValue(d, i, OctalEnd(d, i)),
                                  to |-> OctalEnd(d, i)]
                       ELSE [b |-> current, to |-> i + 1]
            rest    == parse_literal(d, step.to)
        IN  IF step.b > 255 \/ rest.raised THEN [raised |-> TRUE, bytes |-> <<>>]
            ELSE [raised |-> FALSE, bytes |-> <<step.b>> \o rest.bytes]

(***************************************************************************)
(* parse_to_unicode and _decode_hex.  The table is a function from codes   *)
(* to texts.  int(x) and int(x, 16) are modelled on digit strings, where   *)
(* they raise ValueError for every other string of the inputs used here.   *)
(***************************************************************************)
\* str.splitlines(): the line boundaries
LineBreaks == {10, 11, 12, 13, 28, 29, 30, 133, 8232, 8233}

\* the lines of s from p on, cur being the line read so far; "\r\n" is one
\* boundary
RECURSIVE SplitLinesFrom(_, _, _)
SplitLinesFrom(s, p, cur) ==
    IF p >= Len(s) THEN (IF cur = <<>> THEN <<>> ELSE <<cur>>)
    ELSE IF s[p + 1] \in LineBreaks
         THEN <<cur>> \o SplitLinesFrom(s, IF s[p + 1] = 13 /\ CharAt(s, p + 1, 10)
                                           THEN p + 2 ELSE p + 1, <<>>)
    ELSE SplitLinesFrom(s, p + 1, Append(cur, s[p + 1]))

\* [line.strip() for line in map_data.splitlines()]
StrippedLines(s) ==
    LET ls == SplitLinesFrom(s, 0, <<>>) IN [k \in 1..Len(ls) |-> Strip(ls[k])]

\* s.endswith(f)
EndsWith(s, f) == Len(s) >= Len(f) /\ SubSeq(s, Len(s) - Len(f) + 1, Len(s)) = f

\* s.split(): the runs between whitespace
RECURSIVE SplitFrom(_, _, _)
SplitFrom(s, p, cur) ==
    IF p >= Len(s) THEN (IF cur = <<>> THEN <<>> ELSE <<cur>>)
    ELSE IF IsSpace(s[p + 1])
         THEN (IF cur = <<>> THEN <<>> ELSE <<cur>>) \o SplitFrom(s, p + 1, <<>>)
    ELSE SplitFrom(s, p + 1, Append(cur, s[p + 1]))

Split(s) == SplitFrom(s, 0, <<>>)

\* s.strip("<>")
RECURSIVE StripAngles(_)
StripAngles(s) ==
    IF s # <<>> /\ Head(s) \in {60, 62} THEN StripAngles(Tail(s))
    ELSE IF s # <<>> /\ s[Len(s)] \in {60, 62} THEN StripAngles(SubSeq(s, 1, Len(s) - 1))
    ELSE s

\* a string int(s, 16) and bytes.fromhex take without raising (fromhex: when
\* the length is even as well)
IsHex(s) == s # <<>> /\ \A k \in 1..Len(s) : IsHexDigit(s[k])

\* int(s, 16)
RECURSIVE HexInt(_)
HexInt(s) ==
    IF s = <<>> THEN 0 ELSE 16 * HexInt(SubSeq(s, 1, Len(s) - 1)) + HexValue(s[Len(s)])

\* the 16-bit units of d, big-endian
RECURSIVE Units(_)
Units(d) ==
    IF Len(d) < 2 THEN <<>> ELSE <<d[1] * 256 + d[2]>> \o Units(SubSeq(d, 3, Len(d)))

\* the units decode as UTF-16: a high surrogate is followed by a low one, a
\* low one never stands alone
RECURSIVE UnitsValid(_)
UnitsValid(u) ==
    IF u = <<>> THEN TRUE
    ELSE IF u[1] \in 55296..56319
         THEN Len(u) >= 2 /\ u[2] \in 56320..57343 /\ UnitsValid(SubSeq(u, 3, Len(u)))
    ELSE u[1] \notin 56320..57343 /\ UnitsValid(Tail(u))

RECURSIVE UnitsText(_)
UnitsText(u) ==
    IF u = <<>> THEN <<>>
    ELSE IF u[1] \in 55296..56319
         THEN <<65536 + (u[1] - 55296) * 1024 + (u[2] - 56320)>>
                  \o UnitsText(SubSeq(u, 3, Len(u)))
    ELSE <<u[1]>> \o UnitsText(Tail(u))

\* d.decode("utf-16-be") does not raise
Utf16Valid(d) == Len(d) % 2 = 0 /\ UnitsValid(Units(d))

_decode_hex(dst_hex) ==
    IF dst_hex = <<>> THEN <<>>
    ELSE IF ~IsHex(dst_hex) \/ Len(dst_hex) % 2 = 1 THEN <<>>
    ELSE IF Utf16Valid(HexPairs(dst_hex)) THEN UnitsText(Units(HexPairs(dst_hex)))
    ELSE IF Utf8Valid(HexPairs(dst_hex)) THEN Utf8Text(HexPairs(dst_hex))
    ELSE <<>>

\* mapping[code] = t
Put(m, code, t) == [c \in (DOMAIN m) \cup {code} |-> IF c = code THEN t ELSE m[c]]

\* re.findall(r"<(.*?)>", values), from p on
RECURSIVE FindAngles(_, _)
FindAngles(values, p) ==
    LET opens  == {a \in p..(Len(values) - 1) : values[a + 1] = 60}
        a      == Min(opens)
        closes == {b \in (a + 1)..(Len(values) - 1) : values[b + 1] = 62}
    IN  IF opens = {} THEN <<>>
        ELSE IF closes = {} THEN <<>>
        ELSE <<SubSeq(values, a + 2, Min(closes))>> \o FindAngles(values, Min(closes) + 1)

\* for index, dst_hex in enumerate(hex_values): mapping[start + index] = ...
RECURSIVE PutValues(_, _, _, _)
PutValues(m, start, hex_values, index) ==
    IF index >= Len(hex_values) THEN m
    ELSE PutValues(Put(m, start + index, _decode_hex(hex_values[index + 1])),
                   start, hex_values, index + 1)

\* for code in range(start, end + 1): mapping[code] = chr(base + code - start)
RECURSIVE PutRange(_, _, _, _, _)
PutRange(m, start, end, base, code) ==
    IF code > end THEN m
    ELSE PutRange(Put(m, code, <<base + code - start>>), start, end, base, code + 1)

\* the state of the parser: the index i, the table m, whether an exception
\* was raised, and what the bfrange lines with an array did
Raise(st) == [st EXCEPT !.raised = TRUE]

\* the for loop of a beginbfchar block at line i, from offset on
RECURSIVE BfcharLoop(_, _, _, _)
BfcharLoop(ls, st, offset, count) ==
    LET parts == Split(ls[st.i + offset + 1])
    IN  IF offset > count THEN st
        ELSE IF st.i + offset >= Len(ls) THEN Raise(st)
        ELSE IF Len(parts) < 2 THEN BfcharLoop(ls, st, offset + 1, count)
        ELSE IF ~IsHex(StripAngles(parts[1])) THEN Raise(st)
        ELSE BfcharLoop(ls, [st EXCEPT !.m = Put(@, HexInt(StripAngles(parts[1])),
                                                 _decode_hex(StripAngles(parts[2])))],
                        offset + 1, count)

\* the while loop that reads the lines of an array up to its "]": the index i
\* and the text values it ends with, i = -1 when it runs past the last line
RECURSIVE ArrayLines(_, _, _, _)
ArrayLines(ls, i, offset, values) ==
    IF EndsWith(Strip(values), <<93>>) THEN [i |-> i, values |-> values]
    ELSE IF i + 1 + offset >= Len(ls) THEN [i |-> -1, values |-> values]
    ELSE ArrayLines(ls, i + 1, offset, values \o <<32>> \o ls[i + 1 + offset + 1])

\* the for loop of a beginbfrange block, from offset on
RECURSIVE BfrangeLoop(_, _, _, _)
BfrangeLoop(ls, st, offset, count) ==
    LET parts == Split(ls[st.i + offset + 1])
        start == HexInt(StripAngles(parts[1]))
        end   == HexInt(StripAngles(parts[2]))
        third == parts[3]
        arr   == ArrayLines(ls, st.i, offset, JoinSpace(SubSeq(parts, 3, Len(parts))))
        after == PutValues(st.m, start, FindAngles(arr.values, 0), 0)
    IN  IF offset > count THEN st
        ELSE IF st.i + offset >= Len(ls) THEN Raise(st)
        ELSE IF Len(parts) < 3 THEN BfrangeLoop(ls, st, offset + 1, count)
        ELSE IF ~IsHex(StripAngles(parts[1])) \/ ~IsHex(StripAngles(parts[2])) THEN Raise(st)
        ELSE IF Head(third) = 91
             THEN (IF arr.i = -1 THEN Raise(st)
                   ELSE BfrangeLoop(ls,
                            [st EXCEPT !.i = arr.i, !.m = after,
                                       !.ranges = Append(@,
                                           [start |-> start, end |-> end,
                                            hex_values |-> FindAngles(arr.values, 0),
                                            before |-> st.m, after |-> after])],
                            offset + 1, count))
        ELSE IF ~IsHex(StripAngles(third)) THEN Raise(st)
        ELSE BfrangeLoop(ls,
                 [st EXCEPT !.m = PutRange(@, start, end, HexInt(StripAngles(third)), start)],
                 offset + 1, count)

\* count = int(line.split()[0]) can be read
HasCount(line) ==
    LET first == Split(line)[1]
    IN  first # <<>> /\ \A k \in 1..Len(first) : IsDigit(first[k])

\* the while loop over the lines
RECURSIVE ParseLoop(_, _)
ParseLoop(ls, st) ==
    LET line  == ls[st.i + 1]
        count == ToInt(Split(line)[1])
        block == IF EndsWith(line, <<98, 101, 103, 105, 110, 98, 102, 99, 104, 97, 114>>)
                 THEN BfcharLoop(ls, st, 1, count)
                 ELSE BfrangeLoop(ls, st, 1, count)
    IN  IF st.raised \/ st.i >= Len(ls) THEN st
        ELSE IF \/ EndsWith(line, <<98, 101, 103, 105, 110, 98, 102, 99, 104, 97, 114>>)
                \/ EndsWith(line, <<98, 101, 103, 105, 110, 98, 102, 114, 97, 110, 103, 101>>)
             THEN (IF ~HasCount(line) THEN Raise(st)
                   ELSE IF block.raised THEN block
                   ELSE ParseLoop(ls, [block EXCEPT !.i = @ + count + 1]))
        ELSE ParseLoop(ls, [st EXCEPT !.i = @ + 1])

\* parse_to_unicode: the state the loop ends in
parse_to_unicode(s) ==
    ParseLoop(StrippedLines(s), [i |-> 0, m |-> <<>>, raised |-> FALSE, ranges |-> <<>>])

(***************************************************************************)
(* extract_raw_tokens.  string_pattern is                                  *)
(*     <(?:[0-9A-Fa-f]+)>|\((?:\\.|[^\\])*?\)                              *)
(* and finditer returns its leftmost non-overlapping matches.              *)
(***************************************************************************)
RECURSIVE HexRunEnd(_, _)
HexRunEnd(d, p) == IF p < Len(d) /\ IsHexDigit(d[p + 1]) THEN HexRunEnd(d, p + 1) ELSE p

\* where a match of the first alternative at p ends, or -1
HexOperandEnd(d, p) ==
    IF CharAt(d, p, 60) /\ HexRunEnd(d, p + 1) > p + 1 /\ CharAt(d, HexRunEnd(d, p + 1), 62)
    THEN HexRunEnd(d, p + 1) + 1
    ELSE -1

\* The lazy loop of the second alternative from q: it ends at the first ")"
\* reached, a backslash takes the next byte with it unless that is a line feed
RECURSIVE LiteralScan(_, _)
LiteralScan(d, q) ==
    IF q >= Len(d) THEN -1
    ELSE IF d[q + 1] = 41 THEN q + 1
    ELSE IF d[q + 1] = 92
         THEN (IF q + 1 < Len(d) /\ d[q + 2] # 10 THEN LiteralScan(d, q + 2) ELSE -1)
    ELSE LiteralScan(d, q + 1)

\* where a match of the second alternative at p ends, or -1
LiteralOperandEnd(d, p) == IF CharAt(d, p, 40) THEN LiteralScan(d, p + 1) ELSE -1

OperandEnd(d, p) ==
    IF HexOperandEnd(d, p) # -1 THEN HexOperandEnd(d, p) ELSE LiteralOperandEnd(d, p)

\* string_pattern.finditer(decompressed) from p: the matches as
\* [start, end), in order
RECURSIVE Operands(_, _)
Operands(d, p) ==
    IF p >= Len(d) THEN <<>>
    ELSE IF OperandEnd(d, p) # -1
         THEN <<[start |-> p, end |-> OperandEnd(d, p)]>> \o Operands(d, OperandEnd(d, p))
    ELSE Operands(d, p + 1)

\* the body of the loop over the matches: the decoded text of one operand
DecodeOperand(raw_value, cm) ==
    LET inner == SubSeq(raw_value, 2, Len(raw_value) - 1)
        b     == IF raw_value[1] = 60 THEN FromHex(inner) ELSE parse_literal(inner, 0)
    IN  IF b.raised THEN [raised |-> TRUE, text |-> <<>>]
        ELSE [raised |-> FALSE, text |-> decode_bytes(b.bytes, cm)]

\* the operands of stream number k, each with its decoding
StreamOperands(stream, cm, k) ==
    LET ms == Operands(stream.bytes, 0)
    IN  [n \in 1..Len(ms) |->
            LET r == DecodeOperand(SubSeq(stream.bytes, ms[n].start + 1, ms[n].end), cm)
            IN  [stream |-> k, start |-> ms[n].start, end |-> ms[n].end,
                 raised |-> r.raised, text |-> r.text]]

\* the loop over the streams from stream k on: a stream that zlib cannot
\* decompress is skipped
RECURSIVE AllOperands(_, _, _)
AllOperands(ss, cm, k) ==
    IF k > Len(ss) THEN <<>>
    ELSE (IF ss[k].ok THEN StreamOperands(ss[k], cm, k) ELSE <<>>)
             \o AllOperands(ss, cm, k + 1)

\* the operands the loops reach: all of them, or those up to the first whose
\* decoding raises
RECURSIVE UntilRaise(_)
UntilRaise(ops) ==
    IF ops = <<>> THEN <<>>
    ELSE IF Head(ops).raised THEN <<Head(ops)>>
    ELSE <<Head(ops)>> \o UntilRaise(Tail(ops))

\* if decoded: tokens.append(decoded)
RECURSIVE TextsOf(_)
TextsOf(ops) ==
    IF ops = <<>> THEN <<>>
    ELSE (IF Head(ops).text # <<>> THEN <<Head(ops).text>> ELSE <<>>) \o TextsOf(Tail(ops))

\* extract_raw_tokens: it raises, or returns the tokens
extract_raw_tokens(ss, cm) ==
    LET ops == UntilRaise(AllOperands(ss, cm, 1))
    IN  IF \E n \in 1..Len(ops) : ops[n].raised
        THEN [raised |-> TRUE, tokens |-> <<>>, operands |-> ops]
        ELSE [raised |-> FALSE, tokens |-> TextsOf(ops), operands |-> ops]

(***************************************************************************)
(* locate_entries.                                                         *)
(***************************************************************************)
\* re.fullmatch(r"[\u4e00-\u9fff]{1,4}", token)
IsShortCJK(token) ==
    Len(token) \in 1..4 /\ \A i \in 1..Len(token) : token[i] \in 19968..40959

\* A slip: the test of the sub-label token is left out, so any token can
\* follow the category
IsBoundaryAnySub(toks, i, current_id) ==
    /\ toks[i + 1] = Str(current_id)
    /\ toks[i + 2] \in CATEGORIES

\* the condition of the inner loop at index i for the id current_id
IsBoundary(toks, i, current_id) ==
    /\ toks[i + 1] = Str(current_id)
    /\ toks[i + 2] \in CATEGORIES
    /\ IsShortCJK(toks[i + 3])

\* the inner for loop: the first i in range(cursor, len(tokens) - 2), or -1
FindBoundary(toks, cursor, current_id) ==
    LET hits == {i \in cursor..(Len(toks) - 3) : IsBoundary(toks, i, current_id)}
    IN  IF hits = {} THEN -1 ELSE Min(hits)

\* A slip: an id without a boundary is skipped and the search goes on with the
\* next id (up to limit) instead of stopping
RECURSIVE LocateSkipping(_, _, _, _)
LocateSkipping(toks, cursor, current_id, limit) ==
    LET found == FindBoundary(toks, cursor, current_id)
    IN  IF current_id > limit THEN <<>>
        ELSE IF found = -1 THEN LocateSkipping(toks, cursor, current_id + 1, limit)
        ELSE <<found>> \o LocateSkipping(toks, found + 1, current_id + 1, limit)

locate_entries_skipping(toks) == LocateSkipping(toks, 0, 1, Len(toks))

RECURSIVE LocateFrom(_, _, _)
LocateFrom(toks, cursor, current_id) ==
    LET found == FindBoundary(toks, cursor, current_id)
    IN  IF found = -1 THEN <<>>
        ELSE <<found>> \o LocateFrom(toks, found + 1, current_id + 1)

locate_entries(toks) == LocateFrom(toks, 0, 1)

(***************************************************************************)
(* slice_entries.                                                          *)
(***************************************************************************)
\* the first while loop: the cursor it stops at, from cursor
RECURSIVE CityCursor(_, _)
CityCursor(segment, cursor) ==
    IF cursor < Len(segment) /\ ~is_city(segment[cursor + 1])
    THEN CityCursor(segment, cursor + 1)
    ELSE cursor

\* any(marker in token for marker in ADDRESS_BREAK)
HasBreakMarker(token) ==
    \E m \in 1..Len(ADDRESS_BREAK) : Contains(token, ADDRESS_BREAK[m])

\* the second while loop: the cursor it stops at, from cursor
RECURSIVE BreakCursor(_, _)
BreakCursor(segment, cursor) ==
    IF cursor < Len(segment) /\ ~HasBreakMarker(segment[cursor + 1])
    THEN BreakCursor(segment, cursor + 1)
    ELSE cursor

\* One attempt of the first alternative \(?0\d{1,2}\)?\d{3,4}-?\d{3,4} at p:
\* where it ends, or -1.  The attempts are numbered 0..63 in the order the
\* backtracking matcher tries them (every quantifier greedy).
PhoneAlt1End(s, p, k) ==
    LET lp == 1 - ((k \div 32) % 2)
        a  == 2 - ((k \div 16) % 2)
        rp == 1 - ((k \div 8) % 2)
        b  == 4 - ((k \div 4) % 2)
        h  == 1 - ((k \div 2) % 2)
        c  == 4 - (k % 2)
        p1 == p + lp
        p2 == p1 + 1
        p3 == p2 + a
        p4 == p3 + rp
        p5 == p4 + b
        p6 == p5 + h
        p7 == p6 + c
    IN  IF /\ (lp = 1 => CharAt(s, p, 40))
           /\ CharAt(s, p1, 48)
           /\ DigitsAt(s, p2, a)
           /\ (rp = 1 => CharAt(s, p3, 41))
           /\ DigitsAt(s, p4, b)
           /\ (h = 1 => CharAt(s, p5, 45))
           /\ DigitsAt(s, p6, c)
        THEN p7
        ELSE -1

\* One attempt of the second alternative 09\d{2}-?\d{6} at p (k = 0: with the
\* hyphen, k = 1: without)
PhoneAlt2End(s, p, k) ==
    LET h == 1 - k
    IN  IF /\ CharAt(s, p, 48)
           /\ CharAt(s, p + 1, 57)
           /\ DigitsAt(s, p + 2, 2)
           /\ (h = 1 => CharAt(s, p + 4, 45))
           /\ DigitsAt(s, p + 4 + h, 6)
        THEN p + 4 + h + 6
        ELSE -1

\* where the phone pattern matched at p ends, or -1
PhoneEndAt(s, p) ==
    LET k1 == {k \in 0..63 : PhoneAlt1End(s, p, k) # -1}
        k2 == {k \in 0..1 : PhoneAlt2End(s, p, k) # -1}
    IN  IF k1 # {} THEN PhoneAlt1End(s, p, Min(k1))
        ELSE IF k2 # {} THEN PhoneAlt2End(s, p, Min(k2))
        ELSE -1

\* phone_match.group(0) if phone_match else ""
PhoneOf(s) ==
    LET at == {p \in 0..Len(s) : PhoneEndAt(s, p) # -1}
    IN  IF at = {} THEN <<>> ELSE SubSeq(s, Min(at) + 1, PhoneEndAt(s, Min(at)))

\* A slip: "cursor += 1" after the city, so the district token is read again as
\* the first address token
SplitSpanShortStep(segment) ==
    LET n      == Len(segment)
        cityAt == CityCursor(segment, 3)
        after  == cityAt + 1
        brk    == BreakCursor(segment, after)
    IN  IF cityAt >= n
        THEN [emitted |-> FALSE, name_phone |-> SubSeq(segment, 4, n),
              city |-> <<>>, has_district |-> FALSE, district |-> <<>>,
              address_parts |-> <<>>, offer_parts |-> <<>>]
        ELSE [emitted |-> TRUE,
              name_phone |-> SubSeq(segment, 4, cityAt),
              city |-> segment[cityAt + 1],
              has_district |-> cityAt + 1 < n,
              district |-> IF cityAt + 1 < n THEN segment[cityAt + 2] ELSE <<>>,
              address_parts |-> SubSeq(segment, after + 1, brk),
              offer_parts |-> From(segment, brk)]

\* The locals of one iteration of the for loop over the spans; emitted is FALSE
\* when the iteration ends at "continue".
SplitSpan(segment) ==
    LET n      == Len(segment)
        cityAt == CityCursor(segment, 3)
        after  == cityAt + 2
        brk    == BreakCursor(segment, after)
    IN  IF cityAt >= n
        THEN [emitted |-> FALSE, name_phone |-> SubSeq(segment, 4, n),
              city |-> <<>>, has_district |-> FALSE, district |-> <<>>,
              address_parts |-> <<>>, offer_parts |-> <<>>]
        ELSE [emitted |-> TRUE,
              name_phone |-> SubSeq(segment, 4, cityAt),
              city |-> segment[cityAt + 1],
              has_district |-> cityAt + 1 < n,
              district |-> IF cityAt + 1 < n THEN segment[cityAt + 2] ELSE <<>>,
              address_parts |-> SubSeq(segment, after + 1, brk),
              offer_parts |-> From(segment, brk)]

\* The Shop built from the locals of one span
MakeShop(segment, order) ==
    LET sp             == SplitSpan(segment)
        name_phone_str == Join(sp.name_phone)
        phone          == PhoneOf(name_phone_str)
        name           == IF phone # <<>> THEN ReplaceOnce(name_phone_str, phone)
                          ELSE name_phone_str
    IN  [id            |-> ToInt(segment[1]),
         category_main |-> segment[2],
         category_sub  |-> segment[3],
         name          |-> Strip(name),
         phone         |-> phone,
         city          |-> Strip(sp.city),
         district      |-> Strip(sp.district),
         address       |-> cleanup_text(Join(sp.address_parts), order),
         offers        |-> cleanup_text(Join(sp.offer_parts), order)]

\* starts.append(len(tokens)); zip(starts[:-1], starts[1:]): the segment of
\* span k, where st is locate_entries(tokens) with len(tokens) appended
Segment(toks, st, k) == SubSeq(toks, st[k] + 1, st[k + 1])

\* the for loop from span k on
RECURSIVE SliceFrom(_, _, _, _)
SliceFrom(toks, order, st, k) ==
    IF k >= Len(st) THEN <<>>
    ELSE (IF SplitSpan(Segment(toks, st, k)).emitted
          THEN <<MakeShop(Segment(toks, st, k), order)>>
          ELSE <<>>) \o SliceFrom(toks, order, st, k + 1)

\* A slip: the records are renumbered by their place in the output, as
\* generate_site.extract_records numbers its records
slice_entries_renumbered(toks, order) ==
    LET out == SliceFrom(toks, order, Append(locate_entries(toks), Len(toks)), 1)
    IN  [k \in 1..Len(out) |-> [out[k] EXCEPT !.id = k]]

slice_entries(toks, order) ==
    SliceFrom(toks, order, Append(locate_entries(toks), Len(toks)), 1)

\* the locals of the spans that reached shops.append, with the span of each
RECURSIVE SliceLocalsFrom(_, _, _)
SliceLocalsFrom(toks, st, k) ==
    IF k >= Len(st) THEN <<>>
    ELSE (IF SplitSpan(Segment(toks, st, k)).emitted
          THEN <<[span |-> k, segment |-> Segment(toks, st, k),
                  locals |-> SplitSpan(Segment(toks, st, k))]>>
          ELSE <<>>) \o SliceLocalsFrom(toks, st, k + 1)

slice_locals(toks) ==
    SliceLocalsFrom(toks, Append(locate_entries(toks), Len(toks)), 1)

(***************************************************************************)
(* The inputs of the segmentation stage: token lists made of at most       *)
(* MaxBlocks blocks.                                                       *)
(***************************************************************************)
MaxBlocks == 5

MaxId == 3

\* "<n>", a category, a sub-label: the boundary of record n
BoundaryBlock(n) == <<Str(n), <<29983, 27963>>, <<39184, 39154>>>>

TokenBlocks ==
    {BoundaryBlock(n) : n \in 1..MaxId}
        \cup { << <<26691, 22290, 24066>> >>,            \* a city
               << <<20013, 22754, 21312>> >>,            \* a district
               << <<24066, 24220, 36335, 49, 34399>> >>, \* an address (U+5E02 inside)
               << <<20778, 24800, 57, 25240>> >>,        \* an offer
               \* a page footer, "page 1 of 2"
               << <<31532, 49, 38913, 65292, 20849, 50, 38913>> >> }

TokenLists ==
    UNION {{Join(f) : f \in [1..k -> TokenBlocks]} : k \in 0..MaxBlocks}

\* Iteration orders of the nine fragments in one process: the listed order and
\* its reverse.
FragmentOrders ==
    { <<1, 2, 3, 4, 5, 6, 7, 8, 9>>, <<9, 8, 7, 6, 5, 4, 3, 2, 1>> }

(***************************************************************************)
(* The segmentation stage as a state machine: one call of slice_entries.   *)
(***************************************************************************)
InitSlice ==
    /\ pc = "slice"
    /\ tokens \in TokenLists
    /\ fragOrder \in FragmentOrders
    /\ starts = <<>>
    /\ shops = <<>>
    /\ splits = <<>>
    /\ IdleExtract /\ IdleDecode /\ IdleMain /\ IdleClean /\ IdleRecords /\ IdleParse

RunSlice ==
    /\ pc = "slice"
    /\ pc' = "sliced"
    /\ starts' = locate_entries(tokens)
    /\ shops' = slice_entries(tokens, fragOrder)
    /\ splits' = slice_locals(tokens)
    /\ UNCHANGED <<tokens, fragOrder>>
    /\ UNCHANGED <<extractVars, decodeVars, mainVars, cleanVars, recordVars, parseVars>>

NextSlice == RunSlice

SpecSlice == InitSlice /\ [][NextSlice]_vars

(***************************************************************************)
(* The segmentation stage on token lists of at most MaxTokens single       *)
(* tokens, where an id can stand anywhere.                                 *)
(***************************************************************************)
MaxTokens == 6

\* "1", "2", a category (also a sub-label), a city
LooseTokens == {<<49>>, <<50>>, <<29983, 27963>>, <<26691, 22290, 24066>>}

LooseTokenLists == UNION {[1..k -> LooseTokens] : k \in 0..MaxTokens}

InitLocate ==
    /\ pc = "slice"
    /\ tokens \in LooseTokenLists
    /\ fragOrder \in FragmentOrders
    /\ starts = <<>>
    /\ shops = <<>>
    /\ splits = <<>>
    /\ IdleExtract /\ IdleDecode /\ IdleMain /\ IdleClean /\ IdleRecords /\ IdleParse

SpecLocate == InitLocate /\ [][NextSlice]_vars

(***************************************************************************)
(* cleanup_text run in two processes on the same text.  Each process       *)
(* visits the fragments in an order of its own: CleanVisit is one          *)
(* iteration of the for loop, on any fragment not visited yet.             *)
(***************************************************************************)
MaxPieces == 2

\* "page 1 of 2" footer, U+9801, U+FF0C U+5171, U+8868, a plain character, a space
TextPieces ==
    { <<31532, 49, 38913, 65292, 20849, 50, 38913>>, <<38913>>, <<65292, 20849>>,
      <<34920>>, <<36335>>, <<32>> }

CleanTexts == UNION {{Join(f) : f \in [1..k -> TextPieces]} : k \in 0..MaxPieces}

Processes == 2

InitClean ==
    /\ pc = "clean"
    /\ text \in CleanTexts
    /\ value = text
    /\ unvisited = 1..Len(HEADER_FRAGMENT)
    /\ results = <<>>
    /\ IdleExtract /\ IdleDecode /\ IdleMain /\ IdleSlice /\ IdleRecords /\ IdleParse

\* value = value.replace(fragment, "") for the next fragment of the iteration
CleanVisit ==
    /\ pc = "clean"
    /\ \E f \in unvisited :
           /\ value' = Replace(value, HEADER_FRAGMENT[f])
           /\ unvisited' = unvisited \ {f}
    /\ UNCHANGED <<pc, text, results>>
    /\ UNCHANGED <<extractVars, decodeVars, mainVars, sliceVars, recordVars, parseVars>>

\* the loop is over: the page-footer pattern, strip, return; the next process
\* starts on the same text
CleanReturn ==
    /\ pc = "clean"
    /\ unvisited = {}
    /\ results' = Append(results, Strip(PageFooterSub(value, 0)))
    /\ IF Len(results) + 1 < Processes
       THEN /\ pc' = "clean"
            /\ value' = text
            /\ unvisited' = 1..Len(HEADER_FRAGMENT)
       ELSE /\ pc' = "cleaned"
            /\ UNCHANGED <<value, unvisited>>
    /\ UNCHANGED text
    /\ UNCHANGED <<extractVars, decodeVars, mainVars, sliceVars, recordVars, parseVars>>

NextClean == CleanVisit \/ CleanReturn

SpecClean == InitClean /\ [][NextClean]_vars

(***************************************************************************)
(* main, after extract_raw_tokens: the skip_tokens filter, the loop that   *)
(* strips the column-header row, the removal of the tokens before the      *)
(* first number, slice_entries.                                            *)
(***************************************************************************)
\* "", " ", "en-US", "zh-TW", "zh-TWen-US", "en-USen-US", "(", ")"
skip_tokens ==
    { <<>>, <<32>>, <<101, 110, 45, 85, 83>>, <<122, 104, 45, 84, 87>>,
      <<122, 104, 45, 84, 87, 101, 110, 45, 85, 83>>,
      <<101, 110, 45, 85, 83, 101, 110, 45, 85, 83>>, <<40>>, <<41>> }

header ==
    << <<32232>>, <<34399>>, <<20998>>, <<39006>>, <<24215, 23478, 21517, 31281>>,
       <<32879, 32097, 38651, 35441>>, <<32291, 24066>>, <<21312, 22495>>,
       <<22320, 22336>>, <<25552, 20379, 20043, 20778>>, <<24800>> >>

\* [token for token in raw_tokens if token.strip() and token not in skip_tokens]
RECURSIVE FilterTokens(_)
FilterTokens(toks) ==
    IF toks = <<>> THEN <<>>
    ELSE (IF Strip(Head(toks)) # <<>> /\ Head(toks) \notin skip_tokens
          THEN <<Head(toks)>> ELSE <<>>) \o FilterTokens(Tail(toks))

\* A slip: "i += len(header) - 1", which leaves the last token of each header
\* row in the list
RECURSIVE StripHeadersShort(_, _)
StripHeadersShort(toks, i) ==
    IF i >= Len(toks) THEN <<>>
    ELSE IF MatchAt(toks, header, i) THEN StripHeadersShort(toks, i + Len(header) - 1)
    ELSE <<toks[i + 1]>> \o StripHeadersShort(toks, i + 1)

\* the while loop that fills normalized_tokens, from index i
RECURSIVE StripHeaders(_, _)
StripHeaders(toks, i) ==
    IF i >= Len(toks) THEN <<>>
    ELSE IF MatchAt(toks, header, i) THEN StripHeaders(toks, i + Len(header))
    ELSE <<toks[i + 1]>> \o StripHeaders(toks, i + 1)

\* str.isdigit(), on texts whose only digits are the ASCII ones
IsDigits(token) == token # <<>> /\ \A i \in 1..Len(token) : IsDigit(token[i])

\* while normalized_tokens and not normalized_tokens[0].isdigit(): pop(0)
RECURSIVE DropLeading(_)
DropLeading(toks) ==
    IF toks # <<>> /\ ~IsDigits(Head(toks)) THEN DropLeading(Tail(toks)) ELSE toks

MaxMainBlocks == 4

\* the header row, its first four tokens, its last seven, a record of four
\* tokens (id 1, category, sub-label, city), a locale tag (a skipped token), a
\* plain token
MainBlocks ==
    { header, SubSeq(header, 1, 4), SubSeq(header, 5, 11),
      BoundaryBlock(1) \o << <<26691, 22290, 24066>> >>,
      << <<101, 110, 45, 85, 83>> >>, << <<36335>> >> }

RawTokenLists ==
    UNION {{Join(f) : f \in [1..k -> MainBlocks]} : k \in 0..MaxMainBlocks}

InitMain ==
    /\ pc = "main"
    /\ raw_tokens \in RawTokenLists
    /\ fragOrder \in FragmentOrders
    /\ cleaned_tokens = <<>>
    /\ normalized_tokens = <<>>
    /\ tokens = <<>>
    /\ starts = <<>>
    /\ shops = <<>>
    /\ splits = <<>>
    /\ IdleExtract /\ IdleDecode /\ IdleClean /\ IdleRecords /\ IdleParse

\* main from the filter to the call of slice_entries; normalized_tokens is the
\* list when the header loop ends, tokens the list slice_entries is given
RunMain ==
    /\ pc = "main"
    /\ pc' = "main_done"
    /\ LET cleaned    == FilterTokens(raw_tokens)
           normalized == StripHeaders(cleaned, 0)
           handed     == DropLeading(normalized)
       IN  /\ cleaned_tokens' = cleaned
           /\ normalized_tokens' = normalized
           /\ tokens' = handed
           /\ starts' = locate_entries(handed)
           /\ shops' = slice_entries(handed, fragOrder)
           /\ splits' = slice_locals(handed)
    /\ UNCHANGED <<raw_tokens, fragOrder>>
    /\ UNCHANGED <<extractVars, decodeVars, cleanVars, recordVars, parseVars>>

NextMain == RunMain

SpecMain == InitMain /\ [][NextMain]_vars

(***************************************************************************)
(* extract_raw_tokens as a state machine: one call on the decompressed     *)
(* streams of a document.                                                  *)
(***************************************************************************)
MaxChunks == 3

\* <0041>, <041>, (A), (\777), <FF>, " Tj" and a line feed, [<0041>(A),
\* "] TJ" and a line feed, (A(B)C)
StreamChunks ==
    { <<60, 48, 48, 52, 49, 62>>, <<60, 48, 52, 49, 62>>, <<40, 65, 41>>,
      <<40, 92, 55, 55, 55, 41>>, <<60, 70, 70, 62>>, <<32, 84, 106, 10>>,
      <<91, 60, 48, 48, 52, 49, 62, 40, 65, 41>>, <<93, 32, 84, 74, 10>>,
      <<40, 65, 40, 66, 41, 67, 41>> }

\* a content stream of at most MaxChunks chunks
ContentStreams ==
    {[ok |-> TRUE, bytes |-> Join(f)] :
        f \in UNION {[1..k -> StreamChunks] : k \in 0..MaxChunks}}

\* the stream of a ToUnicode CMap: 1 beginbfchar / <0041> <0058> / endbfchar
CMapStream ==
    [ok |-> TRUE, bytes |->
        <<
          49, 32, 98, 101, 103, 105, 110, 98, 102, 99, 104, 97, 114, 10, 60,
          48, 48, 52, 49, 62, 32, 60, 48, 48, 53, 56, 62, 10, 101, 110, 100,
          98, 102, 99, 104, 97, 114, 10 >>]

\* a stream zlib.decompress fails on
FailedStream == [ok |-> FALSE, bytes |-> <<>>]

\* the streams of a document before its content stream
LeadingStreams == {<<>>, <<CMapStream>>, <<FailedStream>>, <<CMapStream, FailedStream>>}

StreamLists ==
    LeadingStreams \cup {lead \o <<c>> : lead \in LeadingStreams, c \in ContentStreams}

\* no CMap, and the CMap of the bfchar line <0041> <0058>
ExtractCMaps == {<<>>, (65 :> <<88>>)}

InitExtract ==
    /\ pc = "extract"
    /\ streams \in StreamLists
    /\ cmap \in ExtractCMaps
    /\ raised = FALSE
    /\ origins = <<>>
    /\ raw_tokens = <<>>
    /\ cleaned_tokens = <<>>
    /\ normalized_tokens = <<>>
    /\ IdleDecode /\ IdleSlice /\ IdleClean /\ IdleRecords /\ IdleParse

RunExtract ==
    /\ pc = "extract"
    /\ pc' = "extracted"
    /\ LET r == extract_raw_tokens(streams, cmap)
       IN  /\ raised' = r.raised
           /\ raw_tokens' = r.tokens
           /\ origins' = r.operands
    /\ UNCHANGED <<streams, cmap, cleaned_tokens, normalized_tokens>>
    /\ UNCHANGED <<decodeVars, sliceVars, cleanVars, recordVars, parseVars>>

NextExtract == RunExtract

SpecExtract == InitExtract /\ [][NextExtract]_vars

(***************************************************************************)
(* decode_bytes as a state machine: one hex operand of an even number of   *)
(* digits, decoded with one CMap.                                          *)
(***************************************************************************)
MaxHexPairs == 3

\* 00, 41, 42, FF
HexPairSet == {<<48, 48>>, <<52, 49>>, <<52, 50>>, <<70, 70>>}

HexStrings == UNION {{Join(f) : f \in [1..k -> HexPairSet]} : k \in 0..MaxHexPairs}

\* no CMap; one-byte codes 41, 42; two-byte codes 4141, 4142; two codes with
\* one text; a code with an empty text
DecodeCMaps ==
    { <<>>,
      (65 :> <<88>>) @@ (66 :> <<89>>),
      (16705 :> <<88>>) @@ (16706 :> <<89>>),
      (16705 :> <<88>>) @@ (16706 :> <<88>>),
      (16705 :> <<88>>) @@ (16706 :> <<>>) }

InitDecode ==
    /\ pc = "decode"
    /\ hex_digits \in HexStrings
    /\ cmap \in DecodeCMaps
    /\ data = <<>>
    /\ chars = <<>>
    /\ decoded = <<>>
    /\ streams = <<>> /\ raised = FALSE /\ origins = <<>>
    /\ IdleMain /\ IdleSlice /\ IdleClean /\ IdleRecords /\ IdleParse

RunDecode ==
    /\ pc = "decode"
    /\ pc' = "decoded"
    /\ data' = FromHex(hex_digits).bytes
    /\ chars' = CharsOf(FromHex(hex_digits).bytes, cmap)
    /\ decoded' = decode_bytes(FromHex(hex_digits).bytes, cmap)
    /\ UNCHANGED <<hex_digits, extractVars>>
    /\ UNCHANGED <<mainVars, sliceVars, cleanVars, recordVars, parseVars>>

NextDecode == RunDecode

SpecDecode == InitDecode /\ [][NextDecode]_vars

(***************************************************************************)
(* generate_site.py, extract_records.  A row is [y, items], an item is     *)
(* <<x, text>>; coordinates are integers.  None and the empty string are   *)
(* both the empty text: every read of "index" is a truth test.             *)
(***************************************************************************)
columns ==
    << [key |-> "index", limit |-> 40], [key |-> "category", limit |-> 60],
       [key |-> "name", limit |-> 240], [key |-> "phone", limit |-> 310],
       [key |-> "city", limit |-> 340], [key |-> "district", limit |-> 370],
       [key |-> "address", limit |-> 520], [key |-> "offer", limit |-> 9999] >>

header_keywords ==
    { <<32232>>, <<20998>>, <<24215, 23478, 21517, 31281>>,
      <<32879, 32097, 38651, 35441>>, <<32291, 24066>>, <<21312, 22495>>,
      <<22320, 22336>>, <<25552, 20379, 20043, 20778, 24800>>,
      <<20633, 35387, 65306, 35443, 32048, 20778, 24800, 20839, 23481, 35531,
        27965, 21508, 29305, 32004, 21830, 24215>> }

\* the key of the first column with x < limit, "" when there is none
ColumnOf(x) ==
    LET hits == {k \in 1..Len(columns) : x < columns[k].limit}
    IN  IF hits = {} THEN "" ELSE columns[Min(hits)].key

\* sorted(items, key=lambda item: item[0]): a stable sort
RECURSIVE InsertItem(_, _)
InsertItem(sorted, item) ==
    IF sorted = <<>> THEN <<item>>
    ELSE IF Head(sorted)[1] <= item[1] THEN <<Head(sorted)>> \o InsertItem(Tail(sorted), item)
    ELSE <<item>> \o sorted

RECURSIVE SortItems(_)
SortItems(items) ==
    IF items = <<>> THEN <<>>
    ELSE InsertItem(SortItems(SubSeq(items, 1, Len(items) - 1)), items[Len(items)])

\* buckets[key] once the items of the row are distributed
RECURSIVE Bucket(_, _)
Bucket(items, key) ==
    IF items = <<>> THEN <<>>
    ELSE (IF ColumnOf(Head(items)[1]) = key THEN <<Head(items)[2]>> ELSE <<>>)
             \o Bucket(Tail(items), key)

\* filter(None, parts)
RECURSIVE FilterNone(_)
FilterNone(parts) ==
    IF parts = <<>> THEN <<>>
    ELSE (IF Head(parts) # <<>> THEN <<Head(parts)>> ELSE <<>>) \o FilterNone(Tail(parts))

\* the texts computed from one row
RowTexts(row) ==
    LET items         == SortItems(row.items)
        index_text    == Strip(Join(Bucket(items, "index")))
        category_text == Strip(Join(Bucket(items, "category")))
        name_text     == Strip(Join(Bucket(items, "name")))
        phone_text    == Strip(JoinSpace(Bucket(items, "phone")))
        city_text     == Strip(Join(Bucket(items, "city")))
        district_text == Strip(Join(Bucket(items, "district")))
        address_text  == Strip(JoinSpace(Bucket(items, "address")))
    IN  [index_text    |-> index_text,
         category_text |-> category_text,
         name_text     |-> name_text,
         phone_text    |-> phone_text,
         location_text |->
             Strip(JoinSpace(FilterNone(<<city_text, district_text, address_text>>))),
         offer_text    |-> Strip(JoinSpace(Bucket(items, "offer"))),
         line_text     |->
             JoinSpace(FilterNone(<<index_text, category_text, name_text, phone_text,
                                    city_text, district_text, address_text>>))]

\* the test that makes the loop skip the row
RowSkipped(row) ==
    row.y > 520 \/ \E keyword \in header_keywords : Contains(RowTexts(row).line_text, keyword)

AppendText(list, t) == IF t # <<>> THEN Append(list, t) ELSE list

\* one iteration of the loop over the rows; st is [records, current], current
\* is <<>> for None and <<record>> otherwise
RowStep(st, row) ==
    LET t       == RowTexts(row)
        started ==
            IF t.category_text # <<>> /\ t.name_text # <<>>
            THEN [records |->
                      IF st.current # <<>> /\ st.current[1].index # <<>>
                      THEN Append(st.records, st.current[1]) ELSE st.records,
                  current |->
                      << [index |-> t.index_text, category |-> t.category_text,
                          name |-> t.name_text, phones |-> <<>>, locations |-> <<>>,
                          offers |-> <<>>] >>]
            ELSE IF t.index_text # <<>> /\ st.current # <<>>
                 THEN [st EXCEPT !.current[1].index = t.index_text]
            ELSE st
    IN  IF RowSkipped(row) THEN st
        ELSE IF started.current = <<>> THEN started
        ELSE [started EXCEPT
                 !.current[1].phones = AppendText(@, t.phone_text),
                 !.current[1].locations = AppendText(@, t.location_text),
                 !.current[1].offers = AppendText(@, t.offer_text)]

RECURSIVE RowLoop(_, _, _)
RowLoop(st, rs, k) == IF k > Len(rs) THEN st ELSE RowLoop(RowStep(st, rs[k]), rs, k + 1)

\* list(dict.fromkeys(list)): the first occurrence of each text, in order
RECURSIVE Unique(_)
Unique(list) ==
    IF list = <<>> THEN <<>>
    ELSE LET front == Unique(SubSeq(list, 1, Len(list) - 1))
         IN  IF \E k \in 1..Len(front) : front[k] = list[Len(list)] THEN front
             ELSE Append(front, list[Len(list)])

\* a or b
Or(a, b) == IF a # <<>> THEN a ELSE b

\* the dict appended to cleaned for record number `number`
CleanedRecord(number, record) ==
    [id        |-> number,
     index     |-> Or(record.index, Str(number)),
     category  |-> Or(record.category, <<26410, 20998, 39006>>),
     name      |-> Or(record.name, Or(record.category, <<21830, 24215, 32>> \o Str(number))),
     phones    |-> Unique(record.phones),
     locations |-> Unique(record.locations),
     offers    |-> FilterNone(record.offers)]

\* the records list when the loop over the rows is left and the last current
\* is appended
RawRecords(rs) ==
    LET st == RowLoop([records |-> <<>>, current |-> <<>>], rs, 1)
    IN  st.records \o st.current

extract_records(rs) ==
    [number \in 1..Len(RawRecords(rs)) |-> CleanedRecord(number, RawRecords(rs)[number])]

(***************************************************************************)
(* build_site.py: the keys _render_detail and main read from a record of   *)
(* data/shops.json.                                                        *)
(***************************************************************************)
RenderDetailReads == {"offers", "city", "district", "address", "phone", "name", "category"}

MainReads == {"id"}

(***************************************************************************)
(* The two strategies as a state machine: extract_shops.py writes          *)
(* data/shops.json from slice_entries, generate_site.py from               *)
(* extract_records; each runs once, in any order.                          *)
(***************************************************************************)
MaxRows == 3

\* a full row, a row of a second phone and the same offer again, the header
\* row, a row above y = 520, a row of a category and a name without an index,
\* a row of an index alone, a full row with its items out of order
RowSet ==
    { [y |-> 500, items |->
         << <<30, <<49>>>>, <<50, <<39184, 39154>>>>, <<100, <<21654, 21857, 24215>>>>,
            <<250, <<48, 51, 45, 52>>>>, <<320, <<26691, 22290, 24066>>>>,
            <<350, <<20013, 22754, 21312>>>>, <<400, <<20013, 27491, 36335, 49, 34399>>>>,
            <<530, <<57, 25240>>>> >>],
      [y |-> 490, items |-> << <<250, <<48, 51, 45, 52>>>>, <<530, <<57, 25240>>>> >>],
      [y |-> 515, items |->
         << <<100, <<24215, 23478, 21517, 31281>>>>, <<250, <<32879, 32097, 38651, 35441>>>> >>],
      [y |-> 600, items |->
         << <<30, <<50>>>>, <<50, <<39184, 39154>>>>, <<100, <<21654, 21857, 24215>>>> >>],
      [y |-> 480, items |->
         << <<50, <<29983, 27963>>>>, <<100, <<21654, 21857, 24215>>>> >>],
      [y |-> 470, items |-> << <<30, <<50>>>> >>],
      [y |-> 460, items |->
         << <<530, <<20778, 24800>>>>, <<100, <<21654, 21857, 24215>>>>,
            <<50, <<39184, 39154>>>>, <<30, <<51>>>> >>] }

RowLists == UNION {[1..k -> RowSet] : k \in 0..MaxRows}

\* one entry, and the same entry and a second one that ends at its city
ShapeTokenLists ==
    { BoundaryBlock(1) \o << <<21654, 21857, 24215>>, <<48, 51, 45, 52>>,
                             <<26691, 22290, 24066>>, <<20013, 22754, 21312>>,
                             <<20013, 27491, 36335, 49, 34399>>, <<20778, 24800, 57, 25240>> >>,
      BoundaryBlock(1) \o << <<21654, 21857, 24215>>, <<26691, 22290, 24066>>,
                             <<20013, 22754, 21312>> >>
          \o BoundaryBlock(2) \o << <<21654, 21857, 24215>>, <<26691, 22290, 24066>> >> }

InitShape ==
    /\ pc = "shape"
    /\ tokens \in ShapeTokenLists
    /\ fragOrder \in FragmentOrders
    /\ rows \in RowLists
    /\ starts = <<>>
    /\ shops = <<>>
    /\ splits = <<>>
    /\ records = <<>>
    /\ IdleExtract /\ IdleDecode /\ IdleMain /\ IdleClean /\ IdleParse

\* extract_shops.py: shops = slice_entries(normalized_tokens)
RunSequential ==
    /\ pc \in {"shape", "geometric_done"}
    /\ pc' = IF pc = "shape" THEN "sequential_done" ELSE "shaped"
    /\ starts' = locate_entries(tokens)
    /\ shops' = slice_entries(tokens, fragOrder)
    /\ splits' = slice_locals(tokens)
    /\ UNCHANGED <<tokens, fragOrder, recordVars>>
    /\ UNCHANGED <<extractVars, decodeVars, mainVars, cleanVars, parseVars>>

\* generate_site.py: shops = extract_records(rows)
RunGeometric ==
    /\ pc \in {"shape", "sequential_done"}
    /\ pc' = IF pc = "shape" THEN "geometric_done" ELSE "shaped"
    /\ records' = extract_records(rows)
    /\ UNCHANGED rows
    /\ UNCHANGED <<extractVars, decodeVars, mainVars, sliceVars, cleanVars, parseVars>>

NextShape == RunSequential \/ RunGeometric

SpecShape == InitShape /\ [][NextShape]_vars

(***************************************************************************)
(* parse_to_unicode as a state machine: one call on the text of a CMap     *)
(* stream of at most MaxLines lines.                                       *)
(***************************************************************************)
MaxLines == 4

\* the lines of the text, each with its line feed
CMapLines ==
    {
      \* 1 beginbfchar
      <<49, 32, 98, 101, 103, 105, 110, 98, 102, 99, 104, 97, 114, 10>>,
      \* <0043> <0051>
      <<60, 48, 48, 52, 51, 62, 32, 60, 48, 48, 53, 49, 62, 10>>,
      \* 1 beginbfrange
      <<49, 32, 98, 101, 103, 105, 110, 98, 102, 114, 97, 110, 103, 101, 10>>,
      \* 2 beginbfrange
      <<50, 32, 98, 101, 103, 105, 110, 98, 102, 114, 97, 110, 103, 101, 10>>,
      \* <0041> <0042> <0058>  (a range with a base)
      <<60, 48, 48, 52, 49, 62, 32, 60, 48, 48, 52, 50, 62, 32, 60, 48, 48, 53, 56, 62, 10>>,
      \* <0041> <0042> [<0058> <0059>]  (an array of the size of the range)
      <<60, 48, 48, 52, 49, 62, 32, 60, 48, 48, 52, 50, 62, 32, 91, 60, 48, 48, 53, 56, 62, 32, 60, 48, 48, 53, 57, 62, 93, 10>>,
      \* <0041> <0042> [<0058> <0059> <005A>]  (a longer array)
      <<60, 48, 48, 52, 49, 62, 32, 60, 48, 48, 52, 50, 62, 32, 91, 60, 48, 48, 53, 56, 62, 32, 60, 48, 48, 53, 57, 62, 32, 60, 48, 48, 53, 65, 62, 93, 10>>,
      \* <0041> <0043> [<0058>]  (a shorter array)
      <<60, 48, 48, 52, 49, 62, 32, 60, 48, 48, 52, 51, 62, 32, 91, 60, 48, 48, 53, 56, 62, 93, 10>>,
      \* <0041> <0042> [<0058>  (an array that goes on in the next line)
      <<60, 48, 48, 52, 49, 62, 32, 60, 48, 48, 52, 50, 62, 32, 91, 60, 48, 48, 53, 56, 62, 10>>,
      \* <0059>]
      <<60, 48, 48, 53, 57, 62, 93, 10>> }

CMapTexts == UNION {{Join(f) : f \in [1..k -> CMapLines]} : k \in 0..MaxLines}

InitParse ==
    /\ pc = "parse"
    /\ map_data \in CMapTexts
    /\ mapping = <<>>
    /\ ranges = <<>>
    /\ IdleExtract /\ IdleDecode /\ IdleMain /\ IdleSlice /\ IdleClean /\ IdleRecords

RunParse ==
    /\ pc = "parse"
    /\ pc' = "parsed"
    /\ LET r == parse_to_unicode(map_data)
       IN  /\ raised' = r.raised
           /\ mapping' = IF r.raised THEN <<>> ELSE r.m
           /\ ranges' = r.ranges
    /\ UNCHANGED <<map_data, streams, cmap, origins>>
    /\ UNCHANGED <<decodeVars, mainVars, sliceVars, cleanVars, recordVars>>

NextParse == RunParse

SpecParse == InitParse /\ [][NextParse]_vars

(***************************************************************************)
(* extract_records as a state machine: one call on the rows of a document. *)
(***************************************************************************)
InitRecords ==
    /\ pc = "records"
    /\ rows \in RowLists
    /\ records = <<>>
    /\ IdleExtract /\ IdleDecode /\ IdleMain /\ IdleSlice /\ IdleClean /\ IdleParse

RunRecords ==
    /\ pc = "records"
    /\ pc' = "recorded"
    /\ records' = extract_records(rows)
    /\ UNCHANGED rows
    /\ UNCHANGED <<extractVars, decodeVars, mainVars, sliceVars, cleanVars, parseVars>>

NextRecords == RunRecords

SpecRecords == InitRecords /\ [][NextRecords]_vars

(***************************************************************************)
(* Properties of the segmentation stage (SpecSlice).                       *)
(***************************************************************************)
Sliced == pc = "sliced"

\* the end of span n: the next located boundary, or len(tokens)
SpanEndOf(n) == IF n < Len(starts) THEN starts[n + 1] ELSE Len(tokens)

\* span n holds a token, after its sub-label, whose text ends in U+5E02 or
\* U+7E23 (a final line feed aside)
SpanHasCity(n) ==
    \E i \in (starts[n] + 3)..(SpanEndOf(n) - 1) :
        LET t == tokens[i + 1]
            m == IF t # <<>> /\ t[Len(t)] = 10 THEN Len(t) - 1 ELSE Len(t)
        IN  /\ m >= 1
            /\ t[m] \in {24066, 32291}
            /\ \A j \in 1..(m - 1) : t[j] # 10

ShopIds == {shops[k].id : k \in 1..Len(shops)}

\* C1, as the claim states it: the k-th record returned by slice_entries has
\* id k, for any token list.
C1_IdsGapFreeFromOne ==
    Sliced => \A k \in 1..Len(shops) : shops[k].id = k

\* C1, amended: the ids of the returned records are strictly increasing and
\* each is the number of a located span that holds a city token; they are
\* 1, 2, ..., with no gap, when every located span yields a record (a span
\* dropped for want of a city leaves a gap at its id).
C1_IdsIncreasing ==
    Sliced =>
        /\ \A j, k \in 1..Len(shops) : j < k => shops[j].id < shops[k].id
        /\ ShopIds \subseteq 1..Len(starts)
        /\ \A n \in ShopIds : SpanHasCity(n)
        /\ (Len(shops) = Len(starts) => \A k \in 1..Len(shops) : shops[k].id = k)

\* C1 witness: three spans were located, the second was dropped and the
\* records returned have ids 1 and 3.
C1_Witness ==
    /\ Sliced
    /\ Len(starts) = 3
    /\ Len(shops) = 2
    /\ shops[1].id = 1
    /\ shops[2].id = 3

\* C2: every returned record has a city that ends in U+5E02 or U+7E23; a span
\* with no city token after its sub-label yields no record; every span with
\* one yields a record, whatever happened to the spans around it.
C2_CityOrDropped ==
    Sliced =>
        /\ \A k \in 1..Len(shops) :
               /\ shops[k].city # <<>>
               /\ shops[k].city[Len(shops[k].city)] \in {24066, 32291}
        /\ \A n \in 1..Len(starts) : SpanHasCity(n) <=> n \in ShopIds

\* C2 witness: a span without a city was dropped between two spans that
\* yielded records.
C2_Witness ==
    /\ Sliced
    /\ \E n \in 1..Len(starts) :
           /\ ~SpanHasCity(n)
           /\ n \notin ShopIds
           /\ \E a, b \in ShopIds : a < n /\ n < b

\* the parts of a split in order, as one token list
SplitTokens(seg, sp) ==
    SubSeq(seg, 1, 3) \o sp.name_phone \o <<sp.city>>
        \o (IF sp.has_district THEN <<sp.district>> ELSE <<>>)
        \o sp.address_parts \o sp.offer_parts

\* what C7 says of the parts of a span, the district token aside
SplitInOrder(k) ==
    LET seg == splits[k].segment
        sp  == splits[k].locals
    IN  /\ shops[k].id = ToInt(seg[1])
        /\ shops[k].category_main = seg[2]
        /\ shops[k].category_sub = seg[3]
        /\ SplitTokens(seg, sp) = seg
        /\ \A i \in 1..Len(sp.name_phone) : ~is_city(sp.name_phone[i])
        /\ is_city(sp.city)
        /\ \A i \in 1..Len(sp.address_parts) : ~HasBreakMarker(sp.address_parts[i])
        /\ sp.offer_parts # <<>> => HasBreakMarker(sp.offer_parts[1])

\* C7, as the claim states it: every span that yields a record splits in
\* order, with nothing lost, into id, category, sub-label, the name+phone run
\* up to the first city token, the city, the token right after it, which
\* exists and is the district, the address up to the first token holding a
\* break marker, and the offers from that token on.
C7_SplitWithDistrict ==
    Sliced =>
        \A k \in 1..Len(splits) : SplitInOrder(k) /\ splits[k].locals.has_district

\* C7, amended: the same split, where the token right after the city is the
\* district when there is one; when the city is the last token of the span
\* the record is still emitted, with an empty district, address and offers.
C7_SplitInOrder ==
    Sliced =>
        /\ Len(splits) = Len(shops)
        /\ \A k \in 1..Len(splits) :
               /\ SplitInOrder(k)
               /\ ~splits[k].locals.has_district =>
                      /\ splits[k].locals.district = <<>>
                      /\ splits[k].locals.address_parts = <<>>
                      /\ splits[k].locals.offer_parts = <<>>
                      /\ shops[k].district = <<>>

\* C7 witness: a record whose span holds a name+phone run, a city, a district
\* and offers.
C7_Witness ==
    /\ Sliced
    /\ \E k \in 1..Len(splits) :
           /\ splits[k].locals.name_phone # <<>>
           /\ splits[k].locals.has_district
           /\ splits[k].locals.offer_parts # <<>>

\* where the search for the boundary of id n starts
SearchStart(n) == IF n = 1 THEN 0 ELSE starts[n - 1] + 1

\* C9: with m boundaries located, boundary k is the first boundary triple of
\* id k at or after the search start of k, there is no boundary triple of id
\* m + 1 from the search start of m + 1 on, and no record has an id above m,
\* whatever triples of larger ids follow.
C9_StopsAtMissingId ==
    Sliced =>
        LET m == Len(starts)
        IN  /\ \A k \in 1..m :
                   /\ starts[k] \in SearchStart(k)..(Len(tokens) - 3)
                   /\ IsBoundary(tokens, starts[k], k)
                   /\ \A i \in SearchStart(k)..(starts[k] - 1) : ~IsBoundary(tokens, i, k)
            /\ \A i \in SearchStart(m + 1)..(Len(tokens) - 3) : ~IsBoundary(tokens, i, m + 1)
            /\ \A k \in 1..Len(shops) : shops[k].id <= m

\* C9 witness: the search stopped after id 1 although a boundary triple of a
\* larger id follows the boundary of id 1.
C9_Witness ==
    /\ Sliced
    /\ Len(starts) = 1
    /\ \E n \in 3..MaxId : \E i \in (starts[1] + 1)..(Len(tokens) - 3) :
           IsBoundary(tokens, i, n)

\* the spans of slice_entries: zip(starts[:-1], starts[1:]) once len(tokens)
\* is appended
SpanOf(k) == Segment(tokens, Append(starts, Len(tokens)), k)

\* C16: two consecutive boundary indices of locate_entries differ by at least
\* 3 and the last one is at most len(tokens) - 3, so every span of
\* slice_entries holds its id, category and sub-label tokens (segment[0],
\* segment[1] and segment[2] exist), and int(segment[0]) is the place of the
\* span among the boundaries, counted from 1.
C16_SpansHoldThreeTokens ==
    Sliced =>
        /\ \A k \in 1..(Len(starts) - 1) : starts[k + 1] - starts[k] >= 3
        /\ Len(starts) > 0 => starts[Len(starts)] <= Len(tokens) - 3
        /\ \A k \in 1..Len(starts) :
              /\ Len(SpanOf(k)) >= 3
              /\ IsDigits(SpanOf(k)[1])
              /\ ToInt(SpanOf(k)[1]) = k

\* C16 witness: two boundaries exactly 3 apart, the second one exactly 3
\* before the end, with an id token right after the first boundary's
\* sub-label.
C16_Witness ==
    /\ Sliced
    /\ Len(starts) = 2
    /\ starts[2] - starts[1] = 3
    /\ starts[2] = Len(tokens) - 3
    /\ Len(SpanOf(1)) = 3 /\ Len(SpanOf(2)) = 3

(***************************************************************************)
(* Properties of cleanup_text (SpecClean).                                 *)
(***************************************************************************)
\* C3, as the claim states it: two runs on the same input return the same
\* text from cleanup_text, whatever the order in which each process visits
\* the members of HEADER_FRAGMENT.
C3_SameResultInEveryOrder ==
    pc = "cleaned" => results[1] = results[2]

\* the text holds a page footer, "page N of M"
HasPageFooter(s) == \E p \in 0..(Len(s) - 1) : PageFooterEnd(s, p) # -1

\* C15: for a text that holds a page footer of the form U+7B2C N U+9801 U+FF0C
\* U+5171 M U+9801, cleanup_text removes the whole footer: the result holds no
\* remnant of it, neither U+7B2C nor a page digit (the texts of this
\* specification have no U+7B2C and no digit outside a footer).
C15_FooterRemovedWhole ==
    pc = "cleaned" /\ HasPageFooter(text) =>
        \A n \in 1..Len(results) : \A k \in 1..Len(results[n]) :
            results[n][k] # 31532 /\ ~IsDigit(results[n][k])

(***************************************************************************)
(* Properties of the header-stripping loop of main (SpecMain).             *)
(***************************************************************************)
\* the indices of cleaned_tokens at which the header row occurs
HeaderStarts ==
    {i \in 0..(Len(cleaned_tokens) - Len(header)) : MatchAt(cleaned_tokens, header, i)}

\* the tokens of cleaned_tokens from index j on that lie in no occurrence of
\* the header row (occ: the indices at which one starts), in order
RECURSIVE TokensOutside(_, _)
TokensOutside(occ, j) ==
    IF j >= Len(cleaned_tokens) THEN <<>>
    ELSE (IF \E i \in occ : i <= j /\ j < i + Len(header)
          THEN <<>> ELSE <<cleaned_tokens[j + 1]>>) \o TokensOutside(occ, j + 1)

\* normalized_tokens is cleaned_tokens without the tokens of the occurrences
\* of the header row
OthersKeptInOrder == normalized_tokens = TokensOutside(HeaderStarts, 0)

\* C6, as the claim states it: when the loop ends the list holds no
\* contiguous occurrence of the 11-token header row, and all other tokens are
\* kept in order.
C6_NoHeaderLeft ==
    pc = "main_done" =>
        /\ ~\E i \in 0..(Len(normalized_tokens) - Len(header)) :
               MatchAt(normalized_tokens, header, i)
        /\ OthersKeptInOrder

\* C6, amended: when the loop ends every occurrence of the header row in the
\* cleaned list has been removed and all other tokens are kept in order; the
\* list can hold a header row again, made of the tokens on either side of a
\* removed occurrence.
C6_OccurrencesRemoved ==
    pc = "main_done" => OthersKeptInOrder

\* C6 witness: two header rows were removed and a token between them kept.
C6_Witness ==
    /\ pc = "main_done"
    /\ Cardinality(HeaderStarts) = 2
    /\ normalized_tokens # <<>>
    /\ Len(normalized_tokens) < Len(cleaned_tokens) - Len(header)

(***************************************************************************)
(* Properties of extract_raw_tokens (SpecExtract).                         *)
(***************************************************************************)
Extracted == pc = "extracted"

\* C4: string decoding never raises: extract_raw_tokens decodes every hex
\* operand (of an odd or even number of digits) and every literal operand
\* (an octal escape above 255 included) to a possibly empty text and goes on
\* with the next operand, so the call returns and no operand of a
\* decompressed stream is left undecoded.
C4_DecodingNeverRaises ==
    Extracted =>
        /\ ~raised
        /\ Len(origins) = Len(AllOperands(streams, cmap, 1))

\* the bytes the pattern \s of a bytes regex matches
IsByteSpace(c) == c \in {9, 10, 11, 12, 13, 32}

RECURSIVE SkipSpaces(_, _)
SkipSpaces(d, p) == IF p < Len(d) /\ IsByteSpace(d[p + 1]) THEN SkipSpaces(d, p + 1) ELSE p

\* the operand ending at e is followed by \s*Tj
ShownByTj(d, e) == MatchAt(d, <<84, 106>>, SkipSpaces(d, e))

\* the operand [s, e) lies between a "[" and the next "]", which is followed
\* by \s*TJ
InShownArray(d, s, e) ==
    \E a \in 0..(s - 1) : \E b \in e..(Len(d) - 1) :
        /\ d[a + 1] = 91
        /\ d[b + 1] = 93
        /\ \A m \in (a + 1)..(b - 1) : d[m + 1] # 93
        /\ MatchAt(d, <<84, 74>>, SkipSpaces(d, b + 1))

\* C10: every token extract_raw_tokens emits comes from a string operand
\* directly followed by the show-text operator Tj, or from an element of an
\* array directly followed by the show-array operator TJ; a string anywhere
\* else in a stream (a hex code of a CMap stream) gives no token; the tokens
\* keep the order of the streams.
C10_TokensFromShownOperands ==
    Extracted /\ ~raised =>
        /\ raw_tokens = TextsOf(origins)
        /\ \A n \in 1..Len(origins) :
              origins[n].text # <<>> =>
                  \/ ShownByTj(streams[origins[n].stream].bytes, origins[n].end)
                  \/ InShownArray(streams[origins[n].stream].bytes,
                                  origins[n].start, origins[n].end)

\* where the literal opened before q ends when parentheses nest: depth is the
\* number of "(" still open, a backslash takes the next byte with it; -1 when
\* the literal is never closed
RECURSIVE BalancedEnd(_, _, _)
BalancedEnd(d, q, depth) ==
    IF q >= Len(d) THEN -1
    ELSE IF d[q + 1] = 92 THEN BalancedEnd(d, q + 2, depth)
    ELSE IF d[q + 1] = 40 THEN BalancedEnd(d, q + 1, depth + 1)
    ELSE IF d[q + 1] = 41
         THEN (IF depth = 1 THEN q + 1 ELSE BalancedEnd(d, q + 1, depth - 1))
    ELSE BalancedEnd(d, q + 1, depth)

\* C11: a literal operand with balanced, unescaped nested parentheses is one
\* operand that ends at the parenthesis matching its opening one, so the text
\* after an inner ")" belongs to the same token.
C11_LiteralEndsAtMatchingParen ==
    Extracted =>
        \A n \in 1..Len(origins) :
            LET d == streams[origins[n].stream].bytes
            IN  d[origins[n].start + 1] = 40 =>
                    origins[n].end = BalancedEnd(d, origins[n].start + 1, 1)

(***************************************************************************)
(* Properties of decode_bytes (SpecDecode).                                *)
(***************************************************************************)
\* the width of a code: one byte when no key of the CMap is above 0xFF
CodeWidth == IF \E k \in DOMAIN cmap : k > 255 THEN 2 ELSE 1

\* the codes of width w in d, from byte i on
RECURSIVE CodesOf(_, _, _)
CodesOf(d, w, i) ==
    IF i + w > Len(d) THEN <<>>
    ELSE <<(IF w = 1 THEN d[i + 1] ELSE d[i + 1] * 256 + d[i + 2])>> \o CodesOf(d, w, i + w)

\* the text fragments decode_bytes joined: the chars list, or the one text of
\* the decoding of the whole data
Fragments ==
    IF chars # <<>> THEN chars ELSE IF decoded # <<>> THEN <<decoded>> ELSE <<>>

\* every code of the data is a key of the CMap with a text
Reencodable ==
    /\ Len(data) % CodeWidth = 0
    /\ \A k \in 1..Len(CodesOf(data, CodeWidth, 0)) :
          CMapGet(cmap, CodesOf(data, CodeWidth, 0)[k]) # <<>>

\* C8: for a hex string of an even number of digits, decode_bytes gives one
\* text fragment for each code, the text the CMap has for that code, so that
\* mapping the fragments back through the CMap gives the codes again; the
\* codes are one byte wide when no key of the CMap is above 0xFF and two
\* bytes wide otherwise.
C8_RoundTrip ==
    pc = "decoded" /\ Reencodable =>
        /\ Len(Fragments) = Len(CodesOf(data, CodeWidth, 0))
        /\ \A k \in 1..Len(Fragments) :
              Fragments[k] = CMapGet(cmap, CodesOf(data, CodeWidth, 0)[k])

(***************************************************************************)
(* Properties of the two strategies (SpecShape).                           *)
(***************************************************************************)
\* C5: the records of extract_records and the records of slice_entries have
\* the same set of fields, and that set holds every field that
\* build_site._render_detail reads from a record.
C5_SameRecordShape ==
    pc = "shaped" =>
        /\ \A k \in 1..Len(shops) : \A n \in 1..Len(records) :
              DOMAIN shops[k] = DOMAIN records[n]
        /\ \A k \in 1..Len(shops) : RenderDetailReads \subseteq DOMAIN shops[k]
        /\ \A n \in 1..Len(records) : RenderDetailReads \subseteq DOMAIN records[n]

(***************************************************************************)
(* Properties of parse_to_unicode (SpecParse).                             *)
(***************************************************************************)
\* C12: a bfrange line with the range [start, end] and an array sets the
\* mapping of exactly the codes start..end, the k-th element of the array
\* going to the code start + k, and leaves the mapping of every other code as
\* it was, whatever the number of elements of the array.
C12_ArraySetsExactlyTheRange ==
    \A n \in 1..Len(ranges) :
        LET r == ranges[n]
        IN  /\ \A c \in r.start..r.end :
                  /\ c \in DOMAIN r.after
                  /\ c - r.start < Len(r.hex_values)
                  /\ r.after[c] = _decode_hex(r.hex_values[c - r.start + 1])
            /\ \A c \in (DOMAIN r.after) \cup (DOMAIN r.before) :
                  c \notin r.start..r.end =>
                      /\ c \in DOMAIN r.after
                      /\ c \in DOMAIN r.before
                      /\ r.after[c] = r.before[c]

(***************************************************************************)
(* Properties of extract_records (SpecRecords).                            *)
(***************************************************************************)
\* the rows that are not discarded and supply a category and a name, in order
RECURSIVE StartRows(_)
StartRows(rs) ==
    IF rs = <<>> THEN <<>>
    ELSE (IF /\ ~RowSkipped(Head(rs))
             /\ RowTexts(Head(rs)).category_text # <<>>
             /\ RowTexts(Head(rs)).name_text # <<>>
          THEN <<Head(rs)>> ELSE <<>>) \o StartRows(Tail(rs))

\* C13: every row that is not discarded and supplies a non-empty category and
\* a non-empty name begins a record of the output: there are as many records
\* as such rows, in the order of the rows, whether or not an index was seen
\* for a record.
C13_EveryStartRowYieldsRecord ==
    pc = "recorded" =>
        /\ Len(records) = Len(StartRows(rows))
        /\ \A n \in 1..Len(records) :
              /\ records[n].category = RowTexts(StartRows(rows)[n]).category_text
              /\ records[n].name = RowTexts(StartRows(rows)[n]).name_text

\* C14: the phones, locations and offers of every record of the output hold
\* no entry twice and keep, in the order of their first occurrence, the
\* values that the start row and the continuation rows of the record gave.
C14_ListsDeduplicated ==
    pc = "recorded" =>
        \A n \in 1..Len(records) :
            /\ records[n].phones = Unique(RawRecords(rows)[n].phones)
            /\ records[n].locations = Unique(RawRecords(rows)[n].locations)
            /\ records[n].offers = Unique(RawRecords(rows)[n].offers)

====
